---------------------------- MODULE Spec2Model ----------------------------
(***************************************************************************)
(* A model of uvspec (src/uvspec/spectrum.py, src/uvspec/generate.py):     *)
(* extraction of the excited states of Gaussian09 log files, the merge of  *)
(* several log files, and the generation of the line shape function.       *)
(*                                                                         *)
(* Text is modelled as text: a line and a file are strings, and a file is *)
(* read line by line.  A float is modelled as an integer number of         *)
(* 10^-FracDigits units (energies in 10^-4 eV), a wavelength as an integer *)
(* number of 10^-2 nm.  The model's inputs carry at most FracDigits        *)
(* fractional digits and no exponent, so that the decimal arithmetic is    *)
(* exact; the rounding of binary floating point is not modelled.           *)
(***************************************************************************)
EXTENDS Integers, Sequences, FiniteSets, TLC

(***************************************************************************)
(* Numbers                                                                 *)
(***************************************************************************)

\* Fractional decimal digits a modelled float carries.
FracDigits == 4

\* One unit of the integer part of a modelled float: 10^FracDigits.
Scale == 10000

\* spectrum.py:36   EV2NM = 1239.84, in 10^-2 nm.
EV2NM == 123984

DigitChars == "0123456789"

\* Python's whitespace characters, as float() strips them.
IsSpace(c) == c \in {" ", "\n", "\t", "\r"}

Char(s, i) == SubSeq(s, i, i)

IsDigit(c) == \E d \in 1..10 : Char(DigitChars, d) = c

DigitVal(c) == (CHOOSE d \in 1..10 : Char(DigitChars, d) = c) - 1

RECURSIVE AllDigits(_)
AllDigits(s) ==
    IF Len(s) = 0 THEN TRUE
    ELSE IsDigit(Char(s, 1)) /\ AllDigits(SubSeq(s, 2, Len(s)))

\* The value of a string of digits.
RECURSIVE DigitsVal(_)
DigitsVal(s) ==
    IF Len(s) = 0 THEN 0
    ELSE 10 * DigitsVal(SubSeq(s, 1, Len(s) - 1)) + DigitVal(Char(s, Len(s)))

\* The digits of a natural number.
RECURSIVE NatStr(_)
NatStr(n) ==
    IF n < 10 THEN Char(DigitChars, n + 1)
    ELSE NatStr(n \div 10) \o Char(DigitChars, (n % 10) + 1)

RECURSIVE Pow10(_)
Pow10(k) == IF k = 0 THEN 1 ELSE 10 * Pow10(k - 1)

RECURSIVE LStrip(_)
LStrip(s) ==
    IF Len(s) > 0 /\ IsSpace(Char(s, 1)) THEN LStrip(SubSeq(s, 2, Len(s))) ELSE s

RECURSIVE RStrip(_)
RStrip(s) ==
    IF Len(s) > 0 /\ IsSpace(Char(s, Len(s)))
    THEN RStrip(SubSeq(s, 1, Len(s) - 1)) ELSE s

\* The fractional digits of a float's text, as a number of 10^-FracDigits.
FracVal(f) ==
    IF Len(f) >= FracDigits THEN DigitsVal(SubSeq(f, 1, FracDigits))
    ELSE DigitsVal(f) * Pow10(FracDigits - Len(f))

\* Position of the first occurrence of the character c in s, or 0.
IndexOf(s, c) ==
    LET at == {i \in 1..Len(s) : Char(s, i) = c}
    IN  IF at = {} THEN 0 ELSE CHOOSE i \in at : \A j \in at : i <= j

\* Position of the first "." of s, or 0.
DotPos(s) == IndexOf(s, ".")

\* float() of an unsigned decimal: digits, "digits.", ".digits", "digits.digits".
UnsignedFloat(s) ==
    LET d  == DotPos(s)
        ip == IF d = 0 THEN s ELSE SubSeq(s, 1, d - 1)
        fp == IF d = 0 THEN "" ELSE SubSeq(s, d + 1, Len(s))
    IN  IF AllDigits(ip) /\ AllDigits(fp) /\ Len(ip) + Len(fp) > 0
        THEN [ok |-> TRUE, value |-> DigitsVal(ip) * Scale + FracVal(fp)]
        ELSE [ok |-> FALSE, value |-> 0]

\* float(text): surrounding whitespace is stripped, a sign is accepted;
\* ok = FALSE is Python's ValueError.
ParseFloat(text) ==
    LET s == RStrip(LStrip(text))
    IN  IF Len(s) > 0 /\ Char(s, 1) = "-"
        THEN LET u == UnsignedFloat(SubSeq(s, 2, Len(s)))
             IN  [ok |-> u.ok, value |-> 0 - u.value]
        ELSE IF Len(s) > 0 /\ Char(s, 1) = "+"
        THEN UnsignedFloat(SubSeq(s, 2, Len(s)))
        ELSE UnsignedFloat(s)

\* The fractional digits of str(float): trailing zeros dropped, one digit kept.
RECURSIVE StripZeros(_)
StripZeros(f) ==
    IF Len(f) > 1 /\ Char(f, Len(f)) = "0"
    THEN StripZeros(SubSeq(f, 1, Len(f) - 1)) ELSE f

\* n as exactly k digits, zero padded on the left.
RECURSIVE PadDigits(_, _)
PadDigits(n, k) ==
    IF k = 0 THEN ""
    ELSE PadDigits(n \div 10, k - 1) \o Char(DigitChars, (n % 10) + 1)

\* str(v) of a float v: the shortest decimal text, with at least one
\* fractional digit ("4.0", "3.5", "13.1234").
FloatStr(v) ==
    LET a == IF v < 0 THEN 0 - v ELSE v
    IN  (IF v < 0 THEN "-" ELSE "")
        \o NatStr(a \div Scale) \o "." \o StripZeros(PadDigits(a % Scale, FracDigits))

(***************************************************************************)
(* Text                                                                    *)
(***************************************************************************)

\* str.startswith
StartsWith(s, p) == Len(s) >= Len(p) /\ SubSeq(s, 1, Len(p)) = p

\* needle in hay (substring test)
Contains(hay, needle) ==
    \E i \in 1..(Len(hay) - Len(needle) + 1) :
        SubSeq(hay, i, i + Len(needle) - 1) = needle

\* filter(None, s.split(' ')): the non-empty fields between single spaces.
RECURSIVE SplitSpace(_)
SplitSpace(s) ==
    IF Len(s) = 0 THEN <<>>
    ELSE LET p == IndexOf(s, " ")
         IN  IF p = 0 THEN <<s>>
             ELSE (IF p = 1 THEN <<>> ELSE <<SubSeq(s, 1, p - 1)>>)
                  \o SplitSpace(SubSeq(s, p + 1, Len(s)))

\* The lines of a text, each with its line break, as "for line in logfile"
\* yields them.
RECURSIVE ReadLines(_)
ReadLines(text) ==
    IF Len(text) = 0 THEN <<>>
    ELSE LET p == IndexOf(text, "\n")
         IN  IF p = 0 THEN <<text>>
             ELSE <<SubSeq(text, 1, p)>> \o ReadLines(SubSeq(text, p + 1, Len(text)))

\* The text of a file holding the given lines.
RECURSIVE JoinLines(_)
JoinLines(lines) ==
    IF lines = <<>> THEN "" ELSE Head(lines) \o JoinLines(Tail(lines))


(***************************************************************************)
(* The functions of spectrum.py                                            *)
(***************************************************************************)

\* The keyword an excited state line starts with (spectrum.py:354).
Marker == " Excited State "

NoError == [type |-> "none", line |-> 0]

\* No exception has ended the program.
NoFailure == [type |-> "none", line |-> 0, via |-> 0]

\* An exception of the given type raised at the given source line.
Raise(type, line) == [type |-> type, line |-> line]

\* read_in_excited_states: the lines of the log file that start with the
\* keyword, in file order.
read_in_excited_states(text) ==
    SelectSeq(ReadLines(text), LAMBDA line : StartsWith(line, Marker))

\* A parser that skips what it cannot read: a malformed line yields a
\* state of energy 0 and oscillator strength 0 instead of an exception.
get_state_data_lenient(state) ==
    LET words == SplitSpace(state)
        e == IF Len(words) < 5 THEN [ok |-> FALSE, value |-> 0]
             ELSE ParseFloat(words[5])
        o == IF Len(words) < 9 THEN [ok |-> FALSE, value |-> 0]
             ELSE ParseFloat(SubSeq(words[9], 3, Len(words[9])))
    IN  [error |-> NoError,
         energy |-> IF e.ok THEN e.value ELSE 0,
         oscillator |-> IF o.ok THEN o.value ELSE 0]

\* get_state_data: words[4] is the energy, words[8][2:] the oscillator
\* strength; the energy is evaluated first.
get_state_data(state) ==
    LET words == SplitSpace(state)
        bad(type) == [error |-> Raise(type, 368), energy |-> 0, oscillator |-> 0]
    IN  IF Len(words) < 5 THEN bad("IndexError")
        ELSE LET e == ParseFloat(words[5])
             IN  IF ~e.ok THEN bad("ValueError")
                 ELSE IF Len(words) < 9 THEN bad("IndexError")
                 ELSE LET o == ParseFloat(SubSeq(words[9], 3, Len(words[9])))
                      IN  IF ~o.ok THEN bad("ValueError")
                          ELSE [error |-> NoError, energy |-> e.value,
                                oscillator |-> o.value]

\* duplicate_state: whether str(energy) + ' eV' occurs in a line of haystack.
duplicate_state(needle, haystack) ==
    LET d == get_state_data(needle)
        state_energy == FloatStr(d.energy) \o " eV"
    IN  IF d.error # NoError THEN [error |-> d.error, dup |-> FALSE]
        ELSE [error |-> NoError,
              dup |-> \E i \in 1..Len(haystack) : Contains(haystack[i], state_energy)]

\* convert_units: value * cfactor, or cfactor / value with inverse.  With
\* cfactor in 10^-2 nm eV and value in 10^-4 eV the quotient is in 10^-2 nm.
convert_units(data, cfactor, inverse) ==
    IF inverse /\ \E i \in 1..Len(data) : data[i] = 0
    THEN [error |-> Raise("ZeroDivisionError", 454), data |-> <<>>]
    ELSE [error |-> NoError,
          data |-> [i \in 1..Len(data) |->
                      IF inverse THEN (cfactor * Scale) \div data[i]
                      ELSE (data[i] * cfactor) \div Scale]]

\* max() and min() of a non-empty list.
Max(seq) == CHOOSE m \in {seq[i] : i \in 1..Len(seq)} :
                \A i \in 1..Len(seq) : seq[i] <= m

Min(seq) == CHOOSE m \in {seq[i] : i \in 1..Len(seq)} :
                \A i \in 1..Len(seq) : m <= seq[i]

\* One term of the line shape at a grid point:
\*   oscillator * e ** (-0.5 * (point + shift - energy) ** 2 / sigma ** 2),
\* kept as the numbers it is computed from.
GaussTerm(osc, pt, sh, es, sig) ==
    [oscillator |-> osc, offset |-> pt + sh - es, sigma |-> sig]

\* gau_fit at a grid point: the terms of the sum over the excited states.
GauFit(pt, sh, sig, energies, oscillators) ==
    [k \in 1..Len(energies) |-> GaussTerm(oscillators[k], pt, sh, energies[k], sig)]


(***************************************************************************)
(* Inputs                                                                  *)
(***************************************************************************)

\* Most log files on the command line.
MaxFiles == 2

\* Most lines of one log file.
MaxLines == 2

\* Most grid points generated before the model stops following the loop of
\* generate_spectrum (a loop that never ends is cut here).
MaxPoints == 6

\* Most calls of get_excited_states and generate_spectrum made on a
\* spectrum after it was constructed.
MaxCalls == 2

\* An excited state line with the given energy and oscillator strength texts.
Rec(e, f) == " Excited State   1:  Singlet-A  " \o e \o " eV  354.24 nm  f=" \o f \o "\n"

\* A line that does not start with the keyword.
OtherLine == " SCF Done:  E(RB3LYP) =  -76.4  A.U.\n"

\* Excited state lines the parser cannot read: fewer than 9 fields, an
\* energy or an oscillator strength that is no number.
ShortLine == " Excited State   1:  Singlet-A  3.5 eV  354.24 nm\n"
BadEnergyLine == " Excited State   1:  Singlet-A  3.x5 eV  354.24 nm  f=0.1234\n"
BadOscLine == " Excited State   1:  Singlet-A  3.5 eV  354.24 nm  f=none\n"

\* An excited state line whose fields 3 and 4 are separated by a tab.
TabLine == " Excited State   1:\tSinglet-A  3.5 eV  354.24 nm  f=0.1234\n"

\* Sequences over S of length at most n.
SeqsUpTo(S, n) == UNION {[1..k -> S] : k \in 0..n}

\* The log files of at most MaxLines lines drawn from the lines of A.
Sources(A) == {JoinLines(ls) : ls \in SeqsUpTo(A, MaxLines)}

\* Line sets for the merge: an energy written with and without trailing
\* zeros, an energy whose text ends another's, a line that cannot be parsed.
MergeAlphabets ==
    { {Rec("4.0", "0.1234"), Rec("4.0000", "0.1234")},
      {Rec("3.1234", "0.1"), Rec("13.1234", "0.1")},
      {Rec("4.5", "0.2"), ShortLine} }

\* Two log files with energies 3.5, 4.0 and 4.0, 4.5, among other lines.
ScenarioLogfiles ==
    << JoinLines(<<OtherLine, Rec("3.5", "0.1"), Rec("4.0", "0.2")>>),
       JoinLines(<<Rec("4.0", "0.2"), OtherLine, Rec("4.5", "0.3")>>) >>

\* Lines of the single log file of an extraction.
ExtractLines ==
    {Rec("3.500", "0.1234"), OtherLine, ShortLine, BadEnergyLine, BadOscLine, TabLine}

\* Lines of the log file of a synthesis.
SynthLines == {Rec("1.0", "1.0"), Rec("3.5", "1.0"), Rec("4.5", "0.5")}

\* Fit parameters in 10^-4 eV: valid ones.
DefaultParams == [grid |-> 50000, sigma |-> 3000, shift |-> 0, range |-> 0]

\* Fit parameters in 10^-4 eV, valid ones and invalid ones.
SynthParams ==
    [grid : {-10000, 0, 10000, 15000}, sigma : {-3000, 0, 3000},
     shift : {0, 1000}, range : {-10000, 0, 10000}]

ValidParams(p) == p.grid > 0 /\ p.sigma > 0 /\ p.range >= 0

\* Valid fit parameters of a spectrum whose methods are called again.
ClientParams ==
    {DefaultParams, [grid |-> 10000, sigma |-> 3000, shift |-> 1000, range |-> 0]}


(***************************************************************************)
(* State                                                                   *)
(***************************************************************************)

VARIABLES
    logfiles,                 \* settings.logfile: the text of each log file
    join,                     \* settings.join
    params,                   \* settings.parameters
    pc,                       \* the statement the program is at
    err,                      \* the exception that ended the program
    file_num,                 \* combine_the_spectra
    combined_excited_states,  \* combine_the_spectra
    excited_states,           \* combine_the_spectra: the lines of the file read
    state_idx,                \* combine_the_spectra: the line the scan is at
    scan_base,                \* (history) len(combined_excited_states) when
                              \* the scan of the current file began
    temp_file,                \* the file write_the_temp_file writes
    logfile,                  \* the text of the file self.logfile names
    grid, sigma, shift, plot_range,         \* self.grid ... self.plot_range
    excited_state_energy, oscillator_strength, excited_state_wavelength,
    energy, wavelength, absorbance,
    gs_states,                \* get_excited_states: excited_states
    gs_idx,                   \* get_excited_states: the state the loop is at
    max_energy, min_energy, point,          \* generate_spectrum
    abs_idx,                  \* generate_spectrum: the point the fit is at
    spectrum,                 \* main: spectrum
    caller,                   \* who called the method that runs: "__init__",
                              \* or "client" for a call on the built object
    calls                     \* the calls made on the built object so far

inputVars == <<logfiles, join, params>>
mergeVars == <<file_num, combined_excited_states, excited_states, state_idx,
               scan_base>>
fileVars  == <<temp_file, logfile>>
paramVars == <<grid, sigma, shift, plot_range>>
stickVars == <<excited_state_energy, oscillator_strength, excited_state_wavelength>>
curveVars == <<energy, wavelength, absorbance>>
getVars   == <<gs_states, gs_idx>>
genVars   == <<max_energy, min_energy, point, abs_idx>>
clientVars == <<caller, calls>>

vars == <<inputVars, pc, err, mergeVars, fileVars, paramVars, stickVars,
          curveVars, getVars, genVars, spectrum, clientVars>>

\* The program before main() runs, with the given command line.
Start(files, j, p) ==
    /\ logfiles = files /\ join = j /\ params = p
    /\ pc = "main" /\ err = NoFailure
    /\ file_num = 0 /\ combined_excited_states = <<>> /\ excited_states = <<>>
    /\ state_idx = 0 /\ scan_base = 0
    /\ temp_file = [exists |-> FALSE, text |-> ""] /\ logfile = ""
    /\ grid = 0 /\ sigma = 0 /\ shift = 0 /\ plot_range = 0
    /\ excited_state_energy = <<>> /\ oscillator_strength = <<>>
    /\ excited_state_wavelength = <<>>
    /\ energy = <<>> /\ wavelength = <<>> /\ absorbance = <<>>
    /\ gs_states = <<>> /\ gs_idx = 0
    /\ max_energy = 0 /\ min_energy = 0 /\ point = 0 /\ abs_idx = 0
    /\ spectrum = "None"
    /\ caller = "__init__" /\ calls = 0

\* Several log files joined, with valid fit parameters.
InitMerge ==
    \/ \E A \in MergeAlphabets : \E files \in SeqsUpTo(Sources(A), MaxFiles) :
          Start(files, TRUE, DefaultParams)
    \/ Start(ScenarioLogfiles, TRUE, DefaultParams)

\* One log file, with valid fit parameters.
InitExtract ==
    \E text \in Sources(ExtractLines) : Start(<<text>>, FALSE, DefaultParams)

\* One log file, or the join of no log file, with any fit parameters.
InitSynth ==
    \E p \in SynthParams :
        \/ \E text \in Sources(SynthLines) : Start(<<text>>, FALSE, p)
        \/ Start(<<>>, TRUE, p)

Init == InitMerge \/ InitExtract \/ InitSynth

\* The program ends with the exception e, raised under the statement at
\* line via of the running method.
Fail(e, via) ==
    pc' = "failed" /\ err' = [type |-> e.type, line |-> e.line, via |-> via]

(***************************************************************************)
(* generate.py: main                                                       *)
(***************************************************************************)

\* main with settings.join: join_spectra calls combine_the_spectra.
MainJoin ==
    /\ pc = "main" /\ join
    /\ pc' = "combine_the_spectra"
    /\ file_num' = 0
    /\ combined_excited_states' = <<>>
    /\ UNCHANGED <<inputVars, clientVars, err, excited_states, state_idx, scan_base, fileVars,
                   paramVars, stickVars, curveVars, getVars, genVars, spectrum>>

\* main without settings.join: AbsorptionSpectrum(settings.logfile[0], ...).
MainSingle ==
    /\ pc = "main" /\ ~join
    /\ IF Len(logfiles) = 0
       THEN Fail(Raise("IndexError", 33), 33) /\ UNCHANGED logfile
       ELSE pc' = "__init__" /\ logfile' = logfiles[1] /\ UNCHANGED err
    /\ UNCHANGED <<inputVars, clientVars, mergeVars, temp_file, paramVars, stickVars,
                   curveVars, getVars, genVars, spectrum>>

(***************************************************************************)
(* combine_the_spectra, join_spectra                                       *)
(***************************************************************************)

\* The first log file: all its excited states are taken.
CombineFirst ==
    /\ pc = "combine_the_spectra"
    /\ file_num < Len(logfiles) /\ file_num = 0
    /\ combined_excited_states' =
          combined_excited_states \o read_in_excited_states(logfiles[file_num + 1])
    /\ file_num' = file_num + 1
    /\ UNCHANGED <<inputVars, clientVars, pc, err, excited_states, state_idx, scan_base,
                   fileVars, paramVars, stickVars, curveVars, getVars, genVars,
                   spectrum>>

\* A later log file: its excited states are read, to be scanned.
CombineRead ==
    /\ pc = "combine_the_spectra"
    /\ file_num < Len(logfiles) /\ file_num # 0
    /\ excited_states' = read_in_excited_states(logfiles[file_num + 1])
    /\ state_idx' = 1
    /\ scan_base' = Len(combined_excited_states)
    /\ pc' = "combine_scan"
    /\ UNCHANGED <<inputVars, clientVars, err, file_num, combined_excited_states, fileVars,
                   paramVars, stickVars, curveVars, getVars, genVars, spectrum>>

\* The combined list as it was when the scan of the current file began.
HaystackAtFileStart == SubSeq(combined_excited_states, 1, scan_base)

\* The list a state of a later log file is looked up in.
Haystack == combined_excited_states

\* A state put at the head of the list instead of its end.
AdmitFirst(combined, state) == <<state>> \o combined

\* combined_excited_states.append(state)
Admit(combined, state) == Append(combined, state)

\* One state of a later log file: appended unless duplicate_state finds it.
CombineState ==
    /\ pc = "combine_scan"
    /\ state_idx <= Len(excited_states)
    /\ LET state == excited_states[state_idx]
           d == duplicate_state(state, Haystack)
       IN  IF d.error # NoError
           THEN Fail(d.error, 419) /\ UNCHANGED <<combined_excited_states, state_idx>>
           ELSE /\ combined_excited_states' =
                      IF d.dup THEN combined_excited_states
                      ELSE Admit(combined_excited_states, state)
                /\ state_idx' = state_idx + 1
                /\ UNCHANGED <<pc, err>>
    /\ UNCHANGED <<inputVars, clientVars, file_num, excited_states, scan_base, fileVars,
                   paramVars, stickVars, curveVars, getVars, genVars, spectrum>>

\* The end of a later log file.
CombineEndFile ==
    /\ pc = "combine_scan"
    /\ state_idx > Len(excited_states)
    /\ file_num' = file_num + 1
    /\ pc' = "combine_the_spectra"
    /\ UNCHANGED <<inputVars, clientVars, err, combined_excited_states, excited_states,
                   state_idx, scan_base, fileVars, paramVars, stickVars,
                   curveVars, getVars, genVars, spectrum>>

\* write_the_temp_file: the text of the temporary file.
write_the_temp_file(lines_to_write) == JoinLines(lines_to_write)

\* combine_the_spectra returns; join_spectra writes the combined states to
\* the temporary file and creates the spectrum from that file.
JoinWriteTemp ==
    /\ pc = "combine_the_spectra"
    /\ file_num >= Len(logfiles)
    /\ temp_file' = [exists |-> TRUE,
                     text |-> write_the_temp_file(combined_excited_states)]
    /\ logfile' = write_the_temp_file(combined_excited_states)
    /\ pc' = "__init__"
    /\ UNCHANGED <<inputVars, clientVars, err, mergeVars, paramVars, stickVars, curveVars,
                   getVars, genVars, spectrum>>

\* join_spectra removes the temporary file and returns the spectrum to main.
JoinReturn ==
    /\ pc = "join_return"
    /\ temp_file' = [temp_file EXCEPT !.exists = FALSE]
    /\ spectrum' = "AbsorptionSpectrum"
    /\ pc' = "done"
    /\ UNCHANGED <<inputVars, clientVars, err, mergeVars, logfile, paramVars, stickVars,
                   curveVars, getVars, genVars>>


(***************************************************************************)
(* AbsorptionSpectrum                                                      *)
(***************************************************************************)

\* __init__ up to its call of get_excited_states: the parameters are
\* stored and the lists are created empty.
InitSpectrum ==
    /\ pc = "__init__"
    /\ grid' = params.grid /\ sigma' = params.sigma
    /\ shift' = params.shift /\ plot_range' = params.range
    /\ excited_state_energy' = <<>> /\ excited_state_wavelength' = <<>>
    /\ oscillator_strength' = <<>>
    /\ absorbance' = <<>> /\ wavelength' = <<>> /\ energy' = <<>>
    /\ pc' = "get_excited_states"
    /\ UNCHANGED <<inputVars, clientVars, err, mergeVars, fileVars, getVars, genVars, spectrum>>

\* get_excited_states: the excited states of the log file are read; open()
\* raises IOError when the file is the temporary file join_spectra removed.
GetExcitedStates ==
    /\ pc = "get_excited_states"
    /\ IF join /\ ~temp_file.exists
       THEN Fail(Raise("IOError", 352), 179) /\ UNCHANGED getVars
       ELSE /\ gs_states' = read_in_excited_states(logfile)
            /\ gs_idx' = 1
            /\ pc' = "get_states_loop"
            /\ UNCHANGED err
    /\ UNCHANGED <<inputVars, clientVars, mergeVars, fileVars, paramVars, stickVars,
                   curveVars, genVars, spectrum>>

\* get_excited_states: one state is parsed; its energy and oscillator
\* strength are appended, or the exception of get_state_data ends the program.
GetStateStep ==
    /\ pc = "get_states_loop"
    /\ gs_idx <= Len(gs_states)
    /\ LET state_data == get_state_data(gs_states[gs_idx])
       IN  IF state_data.error # NoError
           THEN Fail(state_data.error, 181)
                /\ UNCHANGED <<excited_state_energy, oscillator_strength, gs_idx>>
           ELSE /\ excited_state_energy' =
                      Append(excited_state_energy, state_data.energy)
                /\ oscillator_strength' =
                      Append(oscillator_strength, state_data.oscillator)
                /\ gs_idx' = gs_idx + 1
                /\ UNCHANGED <<pc, err>>
    /\ UNCHANGED <<inputVars, clientVars, mergeVars, fileVars, paramVars,
                   excited_state_wavelength, curveVars, gs_states, genVars, spectrum>>

\* get_excited_states: the wavelengths of the excited states; __init__ goes
\* on to generate_spectrum, a call on the built object returns.
GetStatesConvert ==
    /\ pc = "get_states_loop"
    /\ gs_idx > Len(gs_states)
    /\ LET c == convert_units(excited_state_energy, EV2NM, TRUE)
       IN  IF c.error # NoError
           THEN Fail(c.error, 185) /\ UNCHANGED excited_state_wavelength
           ELSE /\ excited_state_wavelength' = c.data
                /\ pc' = IF caller = "__init__" THEN "generate_spectrum"
                                                ELSE "done"
                /\ UNCHANGED err
    /\ UNCHANGED <<inputVars, clientVars, mergeVars, fileVars, paramVars,
                   excited_state_energy, oscillator_strength, curveVars, getVars,
                   genVars, spectrum>>

\* A range that takes 0 for the largest and smallest energy of an empty
\* list instead of raising.
GenerateRangeDefault ==
    /\ pc = "generate_spectrum"
    /\ max_energy' = plot_range
          + (IF excited_state_energy = <<>> THEN 0 ELSE Max(excited_state_energy))
    /\ min_energy' =
          (IF excited_state_energy = <<>> THEN 0 ELSE Min(excited_state_energy))
          - plot_range
    /\ point' =
          (IF excited_state_energy = <<>> THEN 0 ELSE Min(excited_state_energy))
          - plot_range
    /\ pc' = "grid"
    /\ UNCHANGED <<inputVars, clientVars, err, mergeVars, fileVars, paramVars, stickVars,
                   curveVars, getVars, abs_idx, spectrum>>

\* generate_spectrum: the range of the grid; max() and min() of an empty
\* list raise ValueError.
GenerateRange ==
    /\ pc = "generate_spectrum"
    /\ IF excited_state_energy = <<>>
       THEN Fail(Raise("ValueError", 201), 201)
            /\ UNCHANGED <<max_energy, min_energy, point>>
       ELSE /\ max_energy' = plot_range + Max(excited_state_energy)
            /\ min_energy' = Min(excited_state_energy) - plot_range
            /\ point' = Min(excited_state_energy) - plot_range
            /\ pc' = "grid"
            /\ UNCHANGED err
    /\ UNCHANGED <<inputVars, clientVars, mergeVars, fileVars, paramVars, stickVars,
                   curveVars, getVars, abs_idx, spectrum>>

\* A loop that stops one point short of a grid that ends on max_energy.
GridContinuesBelow == point < max_energy

\* The condition of the while loop that generates the grid.
GridContinues == point <= max_energy

\* generate_spectrum: one grid point.
GridStep ==
    /\ pc = "grid"
    /\ GridContinues
    /\ Len(energy) < MaxPoints
    /\ energy' = Append(energy, point)
    /\ point' = point + grid
    /\ UNCHANGED <<inputVars, clientVars, pc, err, mergeVars, fileVars, paramVars, stickVars,
                   wavelength, absorbance, getVars, max_energy, min_energy,
                   abs_idx, spectrum>>

\* generate_spectrum: the grid is complete; its wavelengths.
GridConvert ==
    /\ pc = "grid"
    /\ ~GridContinues
    /\ LET c == convert_units(energy, EV2NM, TRUE)
       IN  IF c.error # NoError
           THEN Fail(c.error, 211) /\ UNCHANGED <<wavelength, abs_idx>>
           ELSE /\ wavelength' = c.data
                /\ abs_idx' = 1
                /\ pc' = "absorbance"
                /\ UNCHANGED err
    /\ UNCHANGED <<inputVars, clientVars, mergeVars, fileVars, paramVars, stickVars, energy,
                   absorbance, getVars, max_energy, min_energy, point, spectrum>>

\* generate_spectrum: the absorbance at one grid point; the division by
\* sigma ** 2 raises ZeroDivisionError when sigma is 0.
AbsorbStep ==
    /\ pc = "absorbance"
    /\ abs_idx <= Len(energy)
    /\ IF sigma * sigma = 0 /\ Len(excited_state_energy) > 0
       THEN Fail(Raise("ZeroDivisionError", 224), 224)
            /\ UNCHANGED <<absorbance, abs_idx>>
       ELSE /\ absorbance' =
                  Append(absorbance,
                         GauFit(energy[abs_idx], shift, sigma,
                                excited_state_energy, oscillator_strength))
            /\ abs_idx' = abs_idx + 1
            /\ UNCHANGED <<pc, err>>
    /\ UNCHANGED <<inputVars, clientVars, mergeVars, fileVars, paramVars, stickVars, energy,
                   wavelength, getVars, max_energy, min_energy, point, spectrum>>

\* __init__ returns the spectrum, to main or to join_spectra.
InitReturn ==
    /\ pc = "absorbance"
    /\ abs_idx > Len(energy)
    /\ caller = "__init__"
    /\ IF join
       THEN pc' = "join_return" /\ UNCHANGED spectrum
       ELSE pc' = "done" /\ spectrum' = "AbsorptionSpectrum"
    /\ UNCHANGED <<inputVars, clientVars, err, mergeVars, fileVars, paramVars, stickVars,
                   curveVars, getVars, genVars>>

\* A call of get_excited_states on the spectrum main holds.
CallGetExcitedStates ==
    /\ pc = "done" /\ spectrum = "AbsorptionSpectrum"
    /\ calls < MaxCalls
    /\ caller' = "client" /\ calls' = calls + 1
    /\ pc' = "get_excited_states"
    /\ UNCHANGED <<inputVars, err, mergeVars, fileVars, paramVars, stickVars,
                   curveVars, getVars, genVars, spectrum>>

\* A call of generate_spectrum on the spectrum main holds.
CallGenerateSpectrum ==
    /\ pc = "done" /\ spectrum = "AbsorptionSpectrum"
    /\ calls < MaxCalls
    /\ caller' = "client" /\ calls' = calls + 1
    /\ pc' = "generate_spectrum"
    /\ UNCHANGED <<inputVars, err, mergeVars, fileVars, paramVars, stickVars,
                   curveVars, getVars, genVars, spectrum>>

\* generate_spectrum, called on the built object, returns.
GenerateReturn ==
    /\ pc = "absorbance"
    /\ abs_idx > Len(energy)
    /\ caller = "client"
    /\ pc' = "done"
    /\ UNCHANGED <<inputVars, clientVars, err, mergeVars, fileVars, paramVars,
                   stickVars, curveVars, getVars, genVars, spectrum>>

Next ==
    \/ MainJoin \/ MainSingle
    \/ CombineFirst \/ CombineRead \/ CombineState \/ CombineEndFile
    \/ JoinWriteTemp \/ JoinReturn
    \/ InitSpectrum \/ GetExcitedStates \/ GetStateStep \/ GetStatesConvert
    \/ GenerateRange \/ GridStep \/ GridConvert \/ AbsorbStep \/ InitReturn

Spec == Init /\ [][Next]_vars

\* A program that imports the class: the spectrum is built as main builds it
\* and its public methods are then called again, in any order.
InitClient ==
    \/ \E text \in Sources(SynthLines) : \E p \in ClientParams :
          Start(<<text>>, FALSE, p)
    \/ Start(ScenarioLogfiles, TRUE, DefaultParams)

ClientNext ==
    \/ Next
    \/ CallGetExcitedStates \/ CallGenerateSpectrum \/ GenerateReturn

ClientSpec == InitClient /\ [][ClientNext]_vars


(***************************************************************************)
(* Properties                                                              *)
(***************************************************************************)

\* Whether p is a prefix of s.
IsPrefix(p, s) == Len(p) <= Len(s) /\ SubSeq(s, 1, Len(p)) = p

\* An excited state line is well formed: it has an energy and an oscillator
\* strength at fields 4 and 8.
WellFormed(line) == get_state_data(line).error = NoError

\* The energy of a well-formed excited state line, as a number.
EnergyOf(line) == ParseFloat(SplitSpace(line)[5]).value

\* The scan of a later log file is at a state, and every line involved is
\* well formed.
ScanningState ==
    /\ pc = "combine_scan"
    /\ state_idx <= Len(excited_states)
    /\ \A i \in 1..Len(excited_states) : WellFormed(excited_states[i])
    /\ \A i \in 1..Len(combined_excited_states) :
          WellFormed(combined_excited_states[i])

\* C1: in combine_the_spectra, a state of a later log file is appended to
\* the combined list if and only if no state already in the combined list
\* has the same energy (for every text of the energy).
C1_AppendIffNewEnergy ==
    [][ScanningState =>
          LET state == excited_states[state_idx]
              known == \E i \in 1..Len(combined_excited_states) :
                          EnergyOf(combined_excited_states[i]) = EnergyOf(state)
          IN  combined_excited_states' =
                 IF known THEN combined_excited_states
                 ELSE Append(combined_excited_states, state)]_vars

\* combine_the_spectra has returned the combined list.
Combined == join /\ pc \notin {"main", "combine_the_spectra", "combine_scan"}
                 /\ err.via # 419

\* C2: merging a log file with itself is idempotent: for log files <<A, A>>
\* of well-formed states, the combined list has as many states as A.
C2_SelfMergeIdempotent ==
    (/\ Combined
     /\ Len(logfiles) = 2 /\ logfiles[1] = logfiles[2]
     /\ \A i \in 1..Len(read_in_excited_states(logfiles[1])) :
           WellFormed(read_in_excited_states(logfiles[1])[i]))
    => Len(combined_excited_states) = Len(read_in_excited_states(logfiles[1]))

\* C3: the combined list only grows at its end: after the first log file it
\* is that file's states in file order, every step keeps the list it had as
\* a prefix, and a step of the scan adds at most the state scanned, last.
C3_AppendOnly ==
    [][/\ IsPrefix(combined_excited_states, combined_excited_states')
       /\ (pc \in {"combine_the_spectra", "combine_scan"} /\ file_num' >= 1 =>
             IsPrefix(read_in_excited_states(logfiles[1]), combined_excited_states'))
       /\ (file_num = 0 /\ file_num' = 1 =>
             combined_excited_states' = read_in_excited_states(logfiles[1]))
       /\ (pc = "combine_scan" /\ state_idx <= Len(excited_states) =>
             combined_excited_states' \in
                {combined_excited_states,
                 Append(combined_excited_states, excited_states[state_idx])})
       /\ (~(pc = "combine_scan" /\ state_idx <= Len(excited_states))
             /\ ~(file_num = 0 /\ file_num' = 1) =>
             combined_excited_states' = combined_excited_states)]_vars

\* C3 witness: a state of a later log file was appended after the states
\* of the first one.
C3_Witness ==
    /\ pc = "combine_scan"
    /\ scan_base > 0
    /\ Len(combined_excited_states) > scan_base
    /\ IsPrefix(read_in_excited_states(logfiles[1]), combined_excited_states)


\* Position of the first whitespace character of s, or 0.
FirstSpace(s) ==
    LET at == {i \in 1..Len(s) : IsSpace(Char(s, i))}
    IN  IF at = {} THEN 0 ELSE CHOOSE i \in at : \A j \in at : i <= j

\* The non-empty fields of s between whitespace characters of any kind.
RECURSIVE WhitespaceFields(_)
WhitespaceFields(s) ==
    IF Len(s) = 0 THEN <<>>
    ELSE LET p == FirstSpace(s)
         IN  IF p = 0 THEN <<s>>
             ELSE (IF p = 1 THEN <<>> ELSE <<SubSeq(s, 1, p - 1)>>)
                  \o WhitespaceFields(SubSeq(s, p + 1, Len(s)))

\* The lines of the log file of the spectrum that start with the keyword.
MatchedLines == SelectSeq(ReadLines(logfile), LAMBDA l : StartsWith(l, Marker))

\* The stick the fields of a line give: float(field 4) and float(field 8
\* without its first two characters); ok when there are 9 fields and both
\* are numbers.
StickOf(fields) ==
    IF Len(fields) < 9 THEN [ok |-> FALSE, energy |-> 0, oscillator |-> 0]
    ELSE LET e == ParseFloat(fields[5])
             o == ParseFloat(SubSeq(fields[9], 3, Len(fields[9])))
         IN  [ok |-> e.ok /\ o.ok, energy |-> e.value, oscillator |-> o.value]

\* get_excited_states has returned.
Extracted ==
    \/ pc \in {"generate_spectrum", "grid", "absorbance", "join_return", "done"}
    \/ pc = "failed" /\ err.via \in {201, 211, 224}

\* get_excited_states has ended with the exception of get_state_data.
ExtractionFailed == pc = "failed" /\ err.via = 181

\* get_excited_states has just returned (to __init__).
ExtractionReturned == pc = "generate_spectrum"

\* The spectrum has been returned to main.
SpectrumReturned == spectrum # "None"

\* Extraction is all or nothing, with sticks[i] the stick of the i-th
\* matched line: when get_excited_states returns, and when the spectrum is
\* returned, every matched line has given its stick, in file order;
\* get_excited_states fails only on a matched line that gives none, and
\* then no spectrum is returned.
AllOrNothing(sticks) ==
    /\ (ExtractionReturned \/ SpectrumReturned) =>
          /\ Len(excited_state_energy) = Len(sticks)
          /\ Len(oscillator_strength) = Len(sticks)
          /\ \A i \in 1..Len(sticks) :
                /\ sticks[i].ok
                /\ excited_state_energy[i] = sticks[i].energy
                /\ oscillator_strength[i] = sticks[i].oscillator
    /\ ExtractionFailed =>
          /\ \E i \in 1..Len(sticks) : ~sticks[i].ok
          /\ spectrum = "None"

\* C4 as stated: extraction is all or nothing, the fields of a line being
\* its non-empty whitespace-separated fields.
C4_AllOrNothingWhitespace ==
    (ExtractionReturned \/ SpectrumReturned \/ ExtractionFailed) =>
       LET lines == MatchedLines
       IN  AllOrNothing([i \in 1..Len(lines) |-> StickOf(WhitespaceFields(lines[i]))])

\* C4 as amended: extraction is all or nothing, the fields of a line being
\* its non-empty fields between single space characters (a tab separates
\* nothing; the line break stays on the last field).
C4_AllOrNothingSpace ==
    (ExtractionReturned \/ SpectrumReturned \/ ExtractionFailed) =>
       LET lines == MatchedLines
       IN  AllOrNothing([i \in 1..Len(lines) |-> StickOf(SplitSpace(lines[i]))])

\* C4 witness: extraction failed as a whole on a malformed line that came
\* after a well-formed one, and no spectrum was returned.
C4_Witness ==
    /\ ExtractionFailed
    /\ Len(excited_state_energy) >= 1
    /\ gs_idx = Len(excited_state_energy) + 1
    /\ gs_idx <= Len(MatchedLines)
    /\ spectrum = "None"


\* C5: every stick set the program extracts, from one log file or from the
\* temporary file of a merge, has no two sticks of equal energy.
C5_UniqueEnergies ==
    Extracted =>
       \A i, j \in 1..Len(excited_state_energy) :
          i # j => excited_state_energy[i] # excited_state_energy[j]

\* The grid of generate_spectrum is complete.
GridBuilt ==
    \/ pc \in {"absorbance", "join_return", "done"}
    \/ pc = "failed" /\ err.via \in {211, 224}

\* The last point of a grid.
Last(seq) == seq[Len(seq)]

\* The grid starts at the smallest energy less the range and has the
\* constant step grid.
GridEven ==
    /\ energy # <<>>
    /\ energy[1] = Min(excited_state_energy) - plot_range
    /\ \A i \in 1..(Len(energy) - 1) : energy[i + 1] - energy[i] = grid

\* C6 as stated: for a non-empty stick set, grid > 0 and range >= 0, the
\* grid is strictly ascending with constant step grid, starts at or below
\* min(energies) - range and ends at or above max(energies) + range.
C6_GridCoversRange ==
    (GridBuilt /\ grid > 0 /\ plot_range >= 0) =>
       /\ GridEven
       /\ energy[1] <= Min(excited_state_energy) - plot_range
       /\ Last(energy) >= Max(excited_state_energy) + plot_range

\* C6 as amended: the grid is strictly ascending with constant step grid,
\* starts at min(energies) - range, and ends at or below max(energies) +
\* range, less than one step short of it.  The loop ends within the
\* points the model follows.
C6_GridWithinRange ==
    /\ (GridBuilt /\ grid > 0 /\ plot_range >= 0) =>
          /\ GridEven
          /\ Last(energy) <= Max(excited_state_energy) + plot_range
          /\ Max(excited_state_energy) + plot_range < Last(energy) + grid
    /\ (pc = "grid" /\ grid > 0 /\ plot_range >= 0) =>
          (Len(energy) < MaxPoints \/ ~GridContinues)

\* C6 witness: a complete grid whose last point is below max(energies) + range.
C6_Witness ==
    /\ pc = "done" /\ grid > 0 /\ plot_range >= 0
    /\ Len(energy) >= 2
    /\ Last(energy) < Max(excited_state_energy) + plot_range

\* C7: for a non-empty stick set of positive energies and grid > 0,
\* sigma > 0, range >= 0, the construction of the spectrum succeeds, with
\* the energy, wavelength and absorbance lists of equal length and aligned
\* (also when a grid point is 0).
C7_ConstructionSucceeds ==
    (/\ Extracted /\ ValidParams(params)
     /\ excited_state_energy # <<>>
     /\ \A i \in 1..Len(excited_state_energy) : excited_state_energy[i] > 0)
    => /\ pc # "failed"
       /\ pc \in {"join_return", "done"} =>
             /\ Len(wavelength) = Len(energy)
             /\ Len(absorbance) = Len(energy)
             /\ \A i \in 1..Len(energy) :
                   /\ wavelength[i] = (EV2NM * Scale) \div energy[i]
                   /\ \A k \in 1..Len(absorbance[i]) :
                         absorbance[i][k].offset =
                            energy[i] + shift - excited_state_energy[k]

\* C8: with no stick, generate_spectrum fails at max() before a grid point
\* is generated: the grid, the wavelengths and the absorbance stay empty
\* and no spectrum is returned.
C8_EmptyStickSetFails ==
    (Extracted /\ excited_state_energy = <<>>) =>
       /\ pc \in {"generate_spectrum", "failed"}
       /\ pc = "failed" => err = [type |-> "ValueError", line |-> 201, via |-> 201]
       /\ energy = <<>> /\ wavelength = <<>> /\ absorbance = <<>>
       /\ spectrum = "None"

\* C8 witness: the join of no log file has failed in generate_spectrum,
\* with every list empty.
C8_Witness ==
    /\ join /\ logfiles = <<>>
    /\ pc = "failed" /\ err.line = 201
    /\ excited_state_energy = <<>> /\ energy = <<>> /\ absorbance = <<>>

\* C9: with an invalid parameter (grid <= 0, sigma <= 0 or range < 0) the
\* construction never returns a spectrum.
C9_InvalidParamsFail ==
    ~ValidParams(params) => (pc \notin {"join_return", "done"} /\ spectrum = "None")

\* The energy of the state scanned is not in the combined list as it was
\* when the scan of the current file began: no state there has that energy,
\* and no line there holds the text str(energy) + ' eV'.
NewToEarlierFiles ==
    \A i \in 1..scan_base :
       /\ EnergyOf(combined_excited_states[i]) # EnergyOf(excited_states[state_idx])
       /\ ~Contains(combined_excited_states[i],
                    FloatStr(EnergyOf(excited_states[state_idx])) \o " eV")

\* The file scanned holds the energy of the state scanned in another state too.
TwiceInFile ==
    \E k \in 1..Len(excited_states) :
       /\ k # state_idx
       /\ EnergyOf(excited_states[k]) = EnergyOf(excited_states[state_idx])

\* C10 as stated: when a later log file holds two states of the same energy
\* and that energy is not in the combined list before the file is scanned,
\* both states are appended (duplicates are removed against earlier files only).
C10_WithinSourceKept ==
    [][(ScanningState /\ NewToEarlierFiles /\ TwiceInFile) =>
          combined_excited_states' =
             Append(combined_excited_states, excited_states[state_idx])]_vars

\* C10 as amended: a state of a later log file is appended if and only if
\* str(energy) + ' eV' occurs in no line of the combined list as it is at
\* that moment, states appended earlier from the same file included.
C10_DedupAgainstAccumulator ==
    [][(/\ pc = "combine_scan"
        /\ state_idx <= Len(excited_states)
        /\ WellFormed(excited_states[state_idx])) =>
          LET state == excited_states[state_idx]
              needle == FloatStr(EnergyOf(state)) \o " eV"
              found == \E i \in 1..Len(combined_excited_states) :
                          Contains(combined_excited_states[i], needle)
          IN  combined_excited_states' =
                 IF found THEN combined_excited_states
                 ELSE Append(combined_excited_states, state)]_vars

\* C10 witness: a later log file held the same energy twice, new to the
\* earlier files; its scan is over and only the first of the two was appended.
C10_Witness ==
    /\ pc = "combine_scan"
    /\ Len(excited_states) = 2 /\ state_idx = 3
    /\ WellFormed(excited_states[1]) /\ WellFormed(excited_states[2])
    /\ EnergyOf(excited_states[1]) = EnergyOf(excited_states[2])
    /\ \A i \in 1..scan_base :
          /\ WellFormed(combined_excited_states[i])
          /\ EnergyOf(combined_excited_states[i]) # EnergyOf(excited_states[1])
    /\ Len(combined_excited_states) = scan_base + 1

\* main, or a program that imports the class, holds the constructed spectrum.
Constructed == spectrum = "AbsorptionSpectrum"

\* The three lists of the curve have one length.
CurveAligned ==
    Len(energy) = Len(wavelength) /\ Len(wavelength) = Len(absorbance)

\* The list is strictly ascending.
Ascending(list) == \A i \in 1..(Len(list) - 1) : list[i] < list[i + 1]

\* C11: once __init__ has returned the spectrum, no step of a call of
\* get_excited_states or generate_spectrum changes the stick lists
\* (excited_state_energy, oscillator_strength, excited_state_wavelength) or
\* the curve lists (energy, wavelength, absorbance); the curve lists keep one
\* length and the energy grid stays ascending.
C11_ImmutableAfterInit ==
    [][Constructed =>
          /\ UNCHANGED <<stickVars, curveVars>>
          /\ CurveAligned'
          /\ Ascending(energy)']_vars

=============================================================================
